---- MODULE Spec2Model ----
(***************************************************************************)
(* Model of verif/input.py: the format dispatcher get_input, the validity  *)
(* predicates of the NetcdfCf, Comps and Text decoders, the Comps naming   *)
(* codec and stacking, and the Text decoder's parse / dense assembly /     *)
(* deferred id assignment.                                                 *)
(*                                                                         *)
(* Conventions.  Python strings are sequences of one-character strings.    *)
(* Floats are fixed-point numbers: the integer v stands for v / Scale.     *)
(* NaN and None are reserved integers outside the range of parsed values.  *)
(***************************************************************************)
EXTENDS Integers, Sequences, FiniteSets, TLC

\* ------------------------------------------------------------------------
\* Bounds of the model
\* ------------------------------------------------------------------------
MaxLines == 5
MaxComments == 1
MaxVars == 3

\* ------------------------------------------------------------------------
\* Numbers
\* ------------------------------------------------------------------------
Scale == 10 * 10 * 10 * 10
NaN == 0 - (2 ^ 30)
None == NaN - 1

isnan(v) == v = NaN

abs(v) == IF v < 0 THEN 0 - v ELSE v

\* ------------------------------------------------------------------------
\* Strings
\* ------------------------------------------------------------------------
Digits == <<"0", "1", "2", "3", "4", "5", "6", "7", "8", "9">>

IsDigit(c) == \E i \in 1..10 : Digits[i] = c

DigitVal(c) == (CHOOSE i \in 1..10 : Digits[i] = c) - 1

StartsWith(s, old) ==
  /\ Len(old) <= Len(s)
  /\ SubSeq(s, 1, Len(old)) = old

RECURSIVE replace(_, _, _)
replace(s, old, new) ==
  IF s = <<>> THEN <<>>
  ELSE IF StartsWith(s, old)
       THEN new \o replace(SubSeq(s, Len(old) + 1, Len(s)), old, new)
       ELSE <<Head(s)>> \o replace(Tail(s), old, new)

RECURSIVE DigitsValue(_)
DigitsValue(s) ==
  IF s = <<>> THEN 0
  ELSE 10 * DigitsValue(SubSeq(s, 1, Len(s) - 1)) + DigitVal(s[Len(s)])

RECURSIVE NatToStr(_)
NatToStr(n) ==
  IF n < 10 THEN <<Digits[n + 1]>>
  ELSE NatToStr(n \div 10) \o <<Digits[(n % 10) + 1]>>

AllDigits(s) == \A i \in 1..Len(s) : IsDigit(s[i])

Unsigned(s) ==
  IF s # <<>> /\ s[1] \in {"-", "+"} THEN Tail(s) ELSE s

DotPos(s) ==
  IF \E i \in 1..Len(s) : s[i] = "."
  THEN CHOOSE i \in 1..Len(s) : s[i] = "." /\ \A j \in 1..(i - 1) : s[j] # "."
  ELSE Len(s) + 1

IntPart(s) == SubSeq(s, 1, DotPos(s) - 1)

FracPart(s) == SubSeq(s, DotPos(s) + 1, Len(s))

\* verif.util.is_number: float(s) does not raise.
is_number(s) ==
  LET u == Unsigned(s) IN
    /\ AllDigits(IntPart(u))
    /\ AllDigits(FracPart(u))
    /\ Len(IntPart(u)) + Len(FracPart(u)) > 0

RECURSIVE Pow10(_)
Pow10(n) == IF n = 0 THEN 1 ELSE 10 * Pow10(n - 1)

FracDigits == CHOOSE n \in 0..9 : Pow10(n) = Scale

\* float(s) for a string accepted by is_number.
float(s) ==
  LET u == Unsigned(s)
      f == FracPart(u)
      fv == IF Len(f) <= FracDigits
            THEN DigitsValue(f) * Pow10(FracDigits - Len(f))
            ELSE DigitsValue(SubSeq(f, 1, FracDigits))
      mag == DigitsValue(IntPart(u)) * Scale + fv
  IN IF s # <<>> /\ s[1] = "-" THEN 0 - mag ELSE mag

RECURSIVE StripZeros(_)
StripZeros(s) ==
  IF s # <<>> /\ s[Len(s)] = "0" THEN StripZeros(SubSeq(s, 1, Len(s) - 1)) ELSE s

PadLeft(s, n) == [i \in 1..(n - Len(s)) |-> "0"] \o s

\* "%g" % v, for values that print without an exponent.
FormatG(v) ==
  LET sign == IF v < 0 THEN <<"-">> ELSE <<>>
      ip == NatToStr(abs(v) \div Scale)
      fp == StripZeros(PadLeft(NatToStr(abs(v) % Scale), FracDigits))
  IN sign \o ip \o (IF fp = <<>> THEN <<>> ELSE <<".">> \o fp)

\* "%d" % v: truncation towards zero.
FormatD(v) ==
  LET ip == abs(v) \div Scale
  IN (IF v < 0 /\ ip > 0 THEN <<"-">> ELSE <<>>) \o NatToStr(ip)

\* ------------------------------------------------------------------------
\* Comps naming codec
\* ------------------------------------------------------------------------
_comps_to_verif_threshold(variable_name) ==
  IF Len(variable_name) >= 2 \/ variable_name[1] = "p"
  THEN LET n1 == replace(variable_name, <<"m">>, <<"-">>)
           n2 == replace(n1, <<"p", "0">>, <<"0", ".">>)
           n3 == replace(n2, <<"p">>, <<>>)
       IN IF is_number(n3) THEN float(n3) ELSE None
  ELSE None

_comps_to_verif_quantile(variable_name) ==
  IF Len(variable_name) >= 2 \/ variable_name[1] = "q"
  THEN LET n1 == replace(variable_name, <<"q", "0">>, <<"0", ".">>)
           n2 == replace(n1, <<"q">>, <<>>)
       IN IF is_number(n2)
          THEN LET temp == float(n2) \div 100
               IN IF temp >= 0 /\ temp <= Scale THEN temp ELSE None
          ELSE None
  ELSE None

_verif_to_comps_threshold(threshold) ==
  LET v1 == IF threshold = 0 THEN <<"0">>
            ELSE IF abs(threshold) < Scale
                 THEN replace(FormatG(threshold), <<".">>, <<>>)
                 ELSE FormatD(threshold)
      v2 == replace(v1, <<"-">>, <<"m">>)
  IN <<"p">> \o v2

NoName == <<>>

_verif_to_comps_quantile(quantile) ==
  IF quantile < 0 \/ quantile > Scale THEN NoName
  ELSE LET v1 == IF quantile = 0 THEN <<"0">>
                 ELSE replace(FormatG(quantile * 100), <<".">>, <<>>)
       IN <<"q">> \o v1

\* ------------------------------------------------------------------------
\* Names used by the decoders
\* ------------------------------------------------------------------------
S_date == <<"d", "a", "t", "e">>
S_offset == <<"o", "f", "f", "s", "e", "t">>
S_lat == <<"l", "a", "t">>
S_lon == <<"l", "o", "n">>
S_elev == <<"e", "l", "e", "v">>
S_id == <<"i", "d">>
S_obs == <<"o", "b", "s">>
S_fcst == <<"f", "c", "s", "t">>
S_pit == <<"p", "i", "t">>
S_p10 == <<"p", "1", "0">>
S_q50 == <<"q", "5", "0">>
S_c == <<"c">>
S_CDF == <<"C", "D", "F">>
S_variable == <<"v", "a", "r", "i", "a", "b", "l", "e", ":">>
S_units == <<"u", "n", "i", "t", "s", ":">>

_dimensionNames ==
  << <<"D", "a", "t", "e">>, <<"O", "f", "f", "s", "e", "t">>,
     <<"L", "o", "c", "a", "t", "i", "o", "n">>, <<"L", "a", "t">>,
     <<"L", "o", "n">>, <<"E", "l", "e", "v">> >>

Range(s) == {s[i] : i \in 1..Len(s)}

Perms(S) ==
  {s \in [1..Cardinality(S) -> S] : \A i, j \in 1..Cardinality(S) : s[i] = s[j] => i = j}

\* ------------------------------------------------------------------------
\* Input files
\* ------------------------------------------------------------------------
\* Sequences of at most n distinct names of S: the storage orders of a file.
Orders(S, n) ==
  UNION {Perms(T) : T \in {U \in SUBSET S : Cardinality(U) <= n}}

\* Names of stored value arrays of a legacy file.
NamePool ==
  { <<"p", "0", "1">>, <<"p", "0", "3">>, <<"p", "1">>, <<"p", "m", "0", "5">>,
    <<"p", "m", "5">>, <<"q", "3", "0">>, <<"q", "5", "0">>, <<"1", "0">>, S_obs }

AttrNames == {"Conventions", "Convensions", "Convension"}

AttrValues(a) ==
  IF a = "Conventions" THEN {"verif_1.0.0", "CF-1.6"} ELSE {"comps", "other"}

\* Global attributes of a structured binary file: any subset of the three
\* attribute names, each with one of its values.
AttrSets ==
  UNION {{f \in [A -> {"verif_1.0.0", "CF-1.6", "comps", "other"}] :
            \A a \in A : f[a] \in AttrValues(a)} : A \in SUBSET AttrNames}

NoAttrs == [a \in {} |-> "comps"]

CompsAttrs == [a \in {"Convensions", "Convension"} |-> "comps"]

MissingFile ==
  [exists |-> FALSE, opens |-> FALSE, attrs |-> NoAttrs, variables |-> <<>>]

TextFile ==
  [exists |-> TRUE, opens |-> FALSE, attrs |-> NoAttrs, variables |-> <<>>]

\* Structured binary files without the legacy coordinate arrays.
BinaryFiles ==
  {[exists |-> TRUE, opens |-> TRUE, attrs |-> a, variables |-> <<>>] : a \in AttrSets}

\* Legacy files: the six coordinate arrays and up to MaxVars value arrays in
\* any storage order.
CompsFiles ==
  {[exists |-> TRUE, opens |-> TRUE, attrs |-> CompsAttrs,
    variables |-> _dimensionNames \o v] : v \in Orders(NamePool, MaxVars)}

Files == {MissingFile, TextFile} \cup BinaryFiles \cup CompsFiles

hasattr(f, a) == a \in DOMAIN f.attrs

\* Values the codec is applied to: the spec's representative samples.
ThresholdSample == {0 - 2 * Scale, 0 - (Scale \div 2), 0, (3 * Scale) \div 10, 5 * Scale}
QuantileSample == {0, (3 * Scale) \div 10, Scale \div 2, Scale}
ThresholdInputs ==
  ThresholdSample \cup {Scale \div 10, Scale, (3 * Scale) \div 2, 0 - 5 * Scale, 10 * Scale}
QuantileInputs ==
  QuantileSample \cup {Scale \div 10, Scale \div 4, (9 * Scale) \div 10, 0 - Scale, 2 * Scale}

\* ------------------------------------------------------------------------
\* State
\* ------------------------------------------------------------------------
VARIABLES
  call,          \* entry point exercised: "get_input" or "codec"
  pc,            \* position of the call
  file,          \* the file behind the path given to get_input
  handles,       \* owners of the file handles currently open
  probes,        \* validity predicates evaluated so far, in order
  constructed,   \* decoders constructed so far, in order
  err,           \* error that aborted the call, or "none"
  codec,         \* naming codec call: kind, value, token, decoded value
  thresholds,    \* Comps.thresholds / Text.thresholds
  quantiles,     \* Comps.quantiles / Text.quantiles
  compsScores,   \* Comps.threshold_scores / quantile_scores, once read
  nlines,        \* Text: lines read so far
  rowstr,        \* Text: the line read last
  seen,          \* history: (date, offset, Location) of every data row stored
  firstSeen,     \* history: the Locations in the order they were created
  firstDates,    \* history: the dates in the order they were first read
  firstOffsets,  \* history: the offsets in the order they were first read
  lastRow,       \* history: (date, offset, Location) -> obs, fcst of the last such row
  ncomments,     \* Text: comment lines read so far
  header,        \* Text: header row; meaningful once headerSet
  headerSet,     \* Text: header is not None
  indices,       \* Text: column name -> position in the header
  _variable,     \* Text: variable name
  _units,        \* Text: units
  warnings,      \* verif.util.warning calls so far, by kind
  shownConflictingWarning,
  locationInfo,  \* Text: id -> Location
  _dates, _offsets, _locations, _quantiles, _thresholds,   \* Text: sets
  obs, fcst, cdf, pit, x,                                  \* Text: sparse tables
  dates, offsets, locations,                               \* Text: coordinates
  self_obs, deterministic, _pit, threshold_scores, quantile_scores  \* Text: dense arrays

dispatchVars == <<call, pc, file, handles, probes, constructed, err>>
compsVars == <<thresholds, quantiles, compsScores>>

textVars ==
  <<nlines, rowstr, seen, firstSeen, firstDates, firstOffsets, lastRow, ncomments, header, headerSet, indices, _variable, _units, warnings,
    shownConflictingWarning, locationInfo, _dates, _offsets, _locations,
    _quantiles, _thresholds, obs, fcst, cdf, pit, x, dates, offsets, locations,
    self_obs, deterministic, _pit, threshold_scores, quantile_scores>>

parseVars ==
  <<seen, firstSeen, firstDates, firstOffsets, lastRow, shownConflictingWarning, locationInfo, _dates, _offsets, _locations,
    _quantiles, _thresholds, obs, fcst, cdf, pit, x>>

denseVars ==
  <<dates, offsets, locations, self_obs, deterministic, _pit, threshold_scores,
    quantile_scores>>

NoCodec == [kind |-> "none", value |-> None, token |-> NoName, back |-> None]

\* verif.util.error: reports and aborts the call.
error(kind) ==
  /\ pc' = "failed"
  /\ err' = kind

\* ------------------------------------------------------------------------
\* Validity predicates.  Each returns its result and whether the handle it
\* opened is still open when it returns.
\* ------------------------------------------------------------------------
NetcdfCf_is_valid(f) ==
  IF ~f.opens THEN [valid |-> FALSE, open |-> FALSE]
  ELSE [valid |-> hasattr(f, "Conventions") /\ f.attrs["Conventions"] = "verif_1.0.0",
        open |-> FALSE]

Comps_is_valid(f) ==
  IF ~f.opens THEN [valid |-> FALSE, open |-> FALSE]
  ELSE IF hasattr(f, "Convensions") /\ ~hasattr(f, "Convension")
       THEN [valid |-> FALSE, open |-> TRUE]
       ELSE [valid |-> TRUE, open |-> FALSE]

Text_is_valid(f) == TRUE

\* ------------------------------------------------------------------------
\* get_input
\* ------------------------------------------------------------------------
GetInputExists_NoAbort ==
  /\ call = "get_input"
  /\ pc = "start"
  /\ pc' = "NetcdfCf.is_valid"
  /\ UNCHANGED <<file, handles, probes, constructed, err>>
  /\ UNCHANGED <<call, codec, compsVars, textVars>>

GetInputExists ==
  /\ call = "get_input"
  /\ pc = "start"
  /\ IF ~file.exists
     THEN error("FileNotFound")
     ELSE pc' = "NetcdfCf.is_valid" /\ err' = err
  /\ UNCHANGED <<call, file, handles, probes, constructed>>
  /\ UNCHANGED <<codec, compsVars, textVars>>

GetInputNetcdfCf ==
  /\ pc = "NetcdfCf.is_valid"
  /\ LET r == NetcdfCf_is_valid(file) IN
       /\ probes' = Append(probes, "NetcdfCf")
       /\ handles' = IF r.open THEN handles \cup {"NetcdfCf.is_valid"} ELSE handles
       /\ pc' = IF r.valid THEN "NetcdfCf.__init__" ELSE "Comps.is_valid"
  /\ UNCHANGED <<call, file, constructed, err>>
  /\ UNCHANGED <<codec, compsVars, textVars>>

GetInputComps ==
  /\ pc = "Comps.is_valid"
  /\ LET r == Comps_is_valid(file) IN
       /\ probes' = Append(probes, "Comps")
       /\ handles' = IF r.open THEN handles \cup {"Comps.is_valid"} ELSE handles
       /\ pc' = IF r.valid THEN "Comps.__init__" ELSE "Text.is_valid"
  /\ UNCHANGED <<call, file, constructed, err>>
  /\ UNCHANGED <<codec, compsVars, textVars>>

GetInputText ==
  /\ pc = "Text.is_valid"
  /\ probes' = Append(probes, "Text")
  /\ IF Text_is_valid(file)
     THEN pc' = "Text.__init__" /\ err' = err
     ELSE error("UnrecognizedFormat")
  /\ UNCHANGED <<call, file, handles, constructed>>
  /\ UNCHANGED <<codec, compsVars, textVars>>

\* ------------------------------------------------------------------------
\* NetcdfCf
\* ------------------------------------------------------------------------
\* NetcdfCf.__init__: opens the file and keeps it open for the lazily read
\* arrays.  The reads of the coordinate arrays are not modelled.
NetcdfCfInit ==
  /\ pc = "NetcdfCf.__init__"
  /\ handles' = handles \cup {"NetcdfCf._file"}
  /\ constructed' = Append(constructed, "NetcdfCf")
  /\ pc' = "loaded"
  /\ UNCHANGED <<call, file, probes, err>>
  /\ UNCHANGED <<codec, compsVars, textVars>>

\* ------------------------------------------------------------------------
\* Comps
\* ------------------------------------------------------------------------
\* Stored names outside the dimension names, in storage order.
ValueNames(variables) ==
  SelectSeq(variables, LAMBDA var : var \notin Range(_dimensionNames))

_get_thresholds(f) ==
  LET names == ValueNames(f.variables)
      decoded == [i \in 1..Len(names) |-> _comps_to_verif_threshold(names[i])]
  IN SelectSeq(decoded, LAMBDA threshold : threshold # None)

_get_quantiles(f) ==
  LET names == ValueNames(f.variables)
      decoded == [i \in 1..Len(names) |-> _comps_to_verif_quantile(names[i])]
  IN SelectSeq(decoded, LAMBDA quantile : quantile # None)

\* Comps.__init__: opens the file and pre-loads the coordinates; a missing
\* coordinate array raises KeyError.  _get_locations and _get_variable do not
\* bear on thresholds and quantiles and are not modelled.
CompsInit ==
  /\ pc = "Comps.__init__"
  /\ handles' = handles \cup {"Comps._file"}
  /\ IF Range(_dimensionNames) \subseteq Range(file.variables)
     THEN /\ thresholds' = _get_thresholds(file)
          /\ quantiles' = _get_quantiles(file)
          /\ constructed' = Append(constructed, "Comps")
          /\ pc' = "loaded"
          /\ err' = err
     ELSE /\ error("KeyError")
          /\ UNCHANGED <<thresholds, quantiles, constructed>>
  /\ UNCHANGED <<call, file, probes>>
  /\ UNCHANGED <<codec, compsScores, textVars>>

\* The stacking loops of threshold_scores / quantile_scores: slot t of the
\* trailing axis holds the array stored under the name encode(values[t]).
\* An array is identified by the name it is stored under.
StackThresholds(values) ==
  [t \in 1..Len(values) |-> _verif_to_comps_threshold(values[t])]

StackQuantiles(values) ==
  [q \in 1..Len(values) |-> _verif_to_comps_quantile(values[q])]

Stored(f, names) == \A t \in 1..Len(names) : names[t] \in Range(f.variables)

CompsThresholdScores ==
  /\ pc = "loaded"
  /\ constructed = <<"Comps">>
  /\ LET names == StackThresholds(thresholds) IN
       IF Stored(file, names)
       THEN /\ compsScores' = [kind |-> "threshold_scores", values |-> names]
            /\ pc' = "scores"
            /\ err' = err
       ELSE /\ error("KeyError")
            /\ UNCHANGED compsScores
  /\ UNCHANGED <<call, file, handles, probes, constructed, codec, thresholds, quantiles, textVars>>

CompsQuantileScores ==
  /\ pc = "loaded"
  /\ constructed = <<"Comps">>
  /\ LET names == StackQuantiles(quantiles) IN
       IF Stored(file, names)
       THEN /\ compsScores' = [kind |-> "quantile_scores", values |-> names]
            /\ pc' = "scores"
            /\ err' = err
       ELSE /\ error("KeyError")
            /\ UNCHANGED compsScores
  /\ UNCHANGED <<call, file, handles, probes, constructed, codec, thresholds, quantiles, textVars>>

\* ------------------------------------------------------------------------
\* Naming codec, called directly
\* ------------------------------------------------------------------------
CodecEncodeThreshold ==
  /\ call = "codec"
  /\ pc = "start"
  /\ \E t \in ThresholdInputs :
       codec' = [kind |-> "threshold", value |-> t,
                 token |-> _verif_to_comps_threshold(t), back |-> None]
  /\ pc' = "encoded"
  /\ UNCHANGED <<call, file, handles, probes, constructed, err, compsVars, textVars>>

CodecEncodeQuantile ==
  /\ call = "codec"
  /\ pc = "start"
  /\ \E q \in QuantileInputs :
       codec' = [kind |-> "quantile", value |-> q,
                 token |-> _verif_to_comps_quantile(q), back |-> None]
  /\ pc' = "encoded"
  /\ UNCHANGED <<call, file, handles, probes, constructed, err, compsVars, textVars>>

CodecDecode ==
  /\ pc = "encoded"
  /\ codec.token # NoName
  /\ codec' = [codec EXCEPT !.back =
                 IF codec.kind = "threshold"
                 THEN _comps_to_verif_threshold(codec.token)
                 ELSE _comps_to_verif_quantile(codec.token)]
  /\ pc' = "decoded"
  /\ UNCHANGED <<call, file, handles, probes, constructed, err, compsVars, textVars>>

\* ------------------------------------------------------------------------
\* Text: file contents
\* ------------------------------------------------------------------------
T_0 == <<"0">>
T_1 == <<"1">>
T_2 == <<"2">>
T_3 == <<"3">>
T_4 == <<"4">>
T_5 == <<"5">>
T_missing == <<"-", "9", "9", "9">>
T_0_0001 == <<"0", ".", "0", "0", "0", "1">>
T_0_0002 == <<"0", ".", "0", "0", "0", "2">>
T_0_001 == <<"0", ".", "0", "0", "1">>
T_0_002 == <<"0", ".", "0", "0", "2">>
T_0_9 == <<"0", ".", "9">>
T_x == <<"x">>

\* Largest integer CPython keeps as a shared object (small-integer cache).
SmallIntMax == 256

\* A layout is a header with the values each of its leading columns takes and
\* the fields of the remaining columns.
Layout(h, v, p) == [header |-> h, values |-> v, pad |-> p]

LayoutLoc ==
  Layout(<<S_id, S_lat, S_obs, S_fcst>>,
         <<{T_missing, T_1, T_2}, {T_missing, T_0, T_0_0002}, {T_3}, {T_4}>>, <<>>)

LayoutGeo ==
  Layout(<<S_id, S_lon, S_elev, S_obs, S_fcst>>,
         <<{T_1}, {T_0, T_0_0001, T_0_0002}, {T_0, T_0_001, T_0_002}, {T_3}, {T_4}>>, <<>>)

LayoutGrid ==
  Layout(<<S_date, S_id, S_obs, S_fcst, S_p10>>,
         <<{T_1, T_2}, {T_1, T_2}, {T_3, T_5}, {T_4}, {T_0_9}>>, <<>>)

LayoutOff ==
  Layout(<<S_offset, S_lat, S_obs, S_fcst, S_q50, S_pit>>,
         <<{T_0, T_1}, {T_0, T_0_0002}, {T_3, T_missing}, {T_4}, {T_5}, {T_0_9}>>, <<>>)

\* One column more than the largest shared integer.
LayoutWide ==
  Layout(<<S_obs, S_fcst>> \o [i \in 1..(SmallIntMax - 1) |-> S_c],
         <<{T_3}, {T_4}>>, [i \in 1..(SmallIntMax - 1) |-> T_0])

LayoutNoFcst == Layout(<<S_obs, S_date>>, <<{T_3}, {T_1}>>, <<>>)

LayoutNoObs == Layout(<<S_fcst>>, <<{T_4}>>, <<>>)

LayoutBlank == Layout(<<>>, <<>>, <<>>)

LayoutBinary == Layout(<<S_CDF>>, <<{T_0}>>, <<>>)

Layouts ==
  {LayoutLoc, LayoutGeo, LayoutGrid, LayoutOff, LayoutWide, LayoutNoFcst,
   LayoutNoObs, LayoutBlank, LayoutBinary}

RECURSIVE Product(_)
Product(sets) ==
  IF sets = <<>> THEN {<<>>}
  ELSE {<<v>> \o r : v \in Head(sets), r \in Product(Tail(sets))}

\* Rows that may follow the header h: every combination of the column
\* values, one row short of a field, one with a field too many and one with
\* a field that is not a number.
DataRows(h) ==
  LET l == CHOOSE e \in Layouts : e.header = h
      rows == {r \o l.pad : r \in Product(l.values)}
      r == CHOOSE row \in rows : TRUE
  IN rows \cup {Tail(r), r \o <<T_0>>, [r EXCEPT ![1] = T_x]}

Comments ==
  { <<>>, <<S_variable, <<"T">>, <<"2", "m">> >>, <<S_units, <<"K">> >>,
    <<S_units>>, << <<"n", "o", "t", "e">> >> }

\* The lines the file can hold at the current position.  A file that opens
\* as a structured binary file starts with the format's magic number.
NextLines ==
  LET rows == IF file.opens THEN {LayoutBinary.header}
              ELSE IF ~headerSet THEN {l.header : l \in Layouts}
              ELSE DataRows(header)
  IN {[comment |-> FALSE, toks |-> r] : r \in rows}
     \cup (IF file.opens \/ ncomments >= MaxComments THEN {}
           ELSE {[comment |-> TRUE, toks |-> c] : c \in Comments})

\* ------------------------------------------------------------------------
\* Text
\* ------------------------------------------------------------------------
EmptyDict == <<>>

NoArray == [shape |-> <<>>, data |-> <<>>]

Put(dict, key, value) ==
  [k \in DOMAIN dict \cup {key} |-> IF k = key THEN value ELSE dict[k]]

\* verif.util.warning: logs and continues.
warning(kind) == warnings' = [warnings EXCEPT ![kind] = @ + 1]

\* Text._clean
_clean(value) ==
  LET fvalue == float(value)
  IN IF fvalue = 0 - 999 * Scale THEN NaN ELSE fvalue

_get_quantile_fields(fields) ==
  SelectSeq(fields, LAMBDA att : att[1] = "q")

_get_threshold_fields(fields) ==
  SelectSeq(fields, LAMBDA att : att[1] = "p" /\ att # S_pit)

\* verif.location.Location
Location(id, lat, lon, elev) == [id |-> id, lat |-> lat, lon |-> lon, elev |-> elev]

\* ' '.join(tokens)
RECURSIVE join(_)
join(tokens) ==
  IF tokens = <<>> THEN <<>>
  ELSE IF Len(tokens) = 1 THEN tokens[1]
  ELSE tokens[1] \o <<" ">> \o join(Tail(tokens))

\* Outcomes of "a is not b" for two freshly computed lengths: integers up to
\* SmallIntMax are shared objects, larger ones are distinct objects in
\* CPython and may be the same object elsewhere.
IsNot(a, b) ==
  IF a # b THEN {TRUE}
  ELSE IF a <= SmallIntMax THEN {FALSE}
  ELSE {TRUE, FALSE}

\* Text.__init__ up to the loop over the rows: opens the file.
TextInit ==
  /\ pc = "Text.__init__"
  /\ handles' = handles \cup {"Text.file"}
  /\ pc' = "Text.read"
  /\ UNCHANGED <<call, file, probes, constructed, err>>
  /\ UNCHANGED <<codec, compsVars, textVars>>

\* A row starting with "#".
TextComment(curr) ==
  /\ ncomments' = ncomments + 1
  /\ IF curr = <<>>
     THEN /\ error("IndexError")
          /\ UNCHANGED <<_variable, _units, warnings>>
     ELSE IF curr[1] = S_variable
     THEN /\ _variable' = join(Tail(curr))
          /\ UNCHANGED <<pc, err, _units, warnings>>
     ELSE IF curr[1] = S_units
     THEN IF Len(curr) < 2
          THEN /\ error("IndexError")
               /\ UNCHANGED <<_variable, _units, warnings>>
          ELSE /\ _units' = curr[2]
               /\ UNCHANGED <<pc, err, _variable, warnings>>
     ELSE /\ warning("ignored")
          /\ UNCHANGED <<pc, err, _variable, _units>>
  /\ UNCHANGED <<header, headerSet, indices>>
  /\ UNCHANGED parseVars

\* The first row that is not a comment.
TextHeader(row) ==
  LET ind == [att \in Range(row) |->
                CHOOSE i \in 1..Len(row) :
                  row[i] = att /\ \A j \in (i + 1)..Len(row) : row[j] # att]
  IN /\ header' = row
     /\ headerSet' = TRUE
     /\ indices' = ind
     /\ IF S_obs \notin DOMAIN ind \/ S_fcst \notin DOMAIN ind
        THEN error("MissingRequiredColumn")
        ELSE UNCHANGED <<pc, err>>
     /\ UNCHANGED <<ncomments, _variable, _units, warnings>>
     /\ UNCHANGED parseVars

\* The sparse table after storing the value of each field of the row under
\* the key extended by the field's number.
RECURSIVE PutFields(_, _, _, _)
PutFields(dict, fields, key, row) ==
  IF fields = <<>> THEN dict
  ELSE LET field == Head(fields)
           k == Append(key, float(Tail(field)))
       IN PutFields(Put(dict, k, _clean(row[indices[field]])), Tail(fields), key, row)

\* Fields of the row that the decoder converts to numbers.
UsedPositions ==
  {indices[att] : att \in
     (DOMAIN indices \cap {S_date, S_offset, S_id, S_lat, S_lon, S_elev, S_obs, S_fcst, S_pit})
     \cup Range(_get_quantile_fields(header)) \cup Range(_get_threshold_fields(header))}

\* The row's own position differs from the stored identity.
Conflicting(currLat, currLon, currElev, lat, lon, elev) ==
  \/ ~isnan(currLat) /\ abs(currLat - lat) > Scale \div 10000
  \/ ~isnan(currLon) /\ abs(currLon - lon) > Scale \div 10000
  \/ ~isnan(currElev) /\ abs(currElev - elev) > Scale \div 1000

ReportConflict_Unflagged(known, conflict) ==
  IF known /\ ~shownConflictingWarning /\ conflict
  THEN /\ warning("conflict")
       /\ UNCHANGED shownConflictingWarning
  ELSE UNCHANGED <<warnings, shownConflictingWarning>>

\* The conflict warning of a row with a known id, shown once per load.
ReportConflict(known, conflict) ==
  IF known /\ ~shownConflictingWarning /\ conflict
  THEN /\ warning("conflict")
       /\ shownConflictingWarning' = TRUE
  ELSE UNCHANGED <<warnings, shownConflictingWarning>>

\* The sequence with the value added at the end unless it holds it already.
AppendNew(seq, value) == IF value \in Range(seq) THEN seq ELSE Append(seq, value)

\* A row after the header.
TextData(row, differ) ==
  IF differ
  THEN /\ error("RowArityMismatch")
       /\ UNCHANGED warnings
       /\ UNCHANGED parseVars
  ELSE IF \/ \E i \in UsedPositions : ~is_number(row[i])
          \/ \E f \in Range(_get_quantile_fields(header))
                      \cup Range(_get_threshold_fields(header)) : ~is_number(Tail(f))
  THEN /\ error("ValueError")
       /\ UNCHANGED warnings
       /\ UNCHANGED parseVars
  ELSE
    LET date == IF S_date \in DOMAIN indices THEN _clean(row[indices[S_date]]) ELSE 0
        offset == IF S_offset \in DOMAIN indices THEN _clean(row[indices[S_offset]]) ELSE 0
        id == IF S_id \in DOMAIN indices THEN _clean(row[indices[S_id]]) ELSE NaN
        currLat == IF S_lat \in DOMAIN indices THEN _clean(row[indices[S_lat]]) ELSE NaN
        currLon == IF S_lon \in DOMAIN indices THEN _clean(row[indices[S_lon]]) ELSE NaN
        currElev == IF S_elev \in DOMAIN indices THEN _clean(row[indices[S_elev]]) ELSE NaN
        known == ~isnan(id) /\ id \in DOMAIN locationInfo
        location == Location(id,
                             IF isnan(currLat) THEN 0 ELSE currLat,
                             IF isnan(currLon) THEN 0 ELSE currLon,
                             IF isnan(currElev) THEN 0 ELSE currElev)
        info == IF known THEN locationInfo ELSE Put(locationInfo, id, location)
        lat == info[id].lat
        lon == info[id].lon
        elev == info[id].elev
        conflict == Conflicting(currLat, currLon, currElev, lat, lon, elev)
        key == <<date, offset, lat, lon, elev>>
        quantileFields == _get_quantile_fields(header)
        thresholdFields == _get_threshold_fields(header)
    IN /\ _dates' = _dates \cup {date}
       /\ _offsets' = _offsets \cup {offset}
       /\ ReportConflict(known, conflict)
       /\ _locations' = IF known THEN _locations ELSE _locations \cup {location}
       /\ locationInfo' = info
       /\ seen' = seen \cup {<<date, offset, info[id]>>}
       /\ firstSeen' = IF known \/ location \in _locations THEN firstSeen
                       ELSE Append(firstSeen, location)
       /\ firstDates' = AppendNew(firstDates, date)
       /\ firstOffsets' = AppendNew(firstOffsets, offset)
       /\ lastRow' = Put(lastRow, <<date, offset, info[id]>>,
                         [obs |-> _clean(row[indices[S_obs]]),
                          fcst |-> _clean(row[indices[S_fcst]])])
       /\ obs' = Put(obs, key, _clean(row[indices[S_obs]]))
       /\ fcst' = Put(fcst, key, _clean(row[indices[S_fcst]]))
       /\ pit' = IF S_pit \in DOMAIN indices
                 THEN Put(pit, key, _clean(row[indices[S_pit]]))
                 ELSE pit
       /\ _quantiles' = _quantiles \cup {float(Tail(f)) : f \in Range(quantileFields)}
       /\ x' = PutFields(x, quantileFields, key, row)
       /\ _thresholds' = _thresholds \cup {float(Tail(f)) : f \in Range(thresholdFields)}
       /\ cdf' = PutFields(cdf, thresholdFields, key, row)
       /\ UNCHANGED <<pc, err>>

\* One iteration of the loop over the rows of the file.
TextReadLine ==
  /\ pc = "Text.read"
  /\ nlines < MaxLines
  /\ \E line \in NextLines :
       /\ nlines' = nlines + 1
       /\ rowstr' = line
       /\ IF line.comment
          THEN TextComment(line.toks)
          ELSE IF ~headerSet
          THEN TextHeader(line.toks)
          ELSE /\ \E differ \in IsNot(Len(line.toks), Len(header)) :
                    TextData(line.toks, differ)
               /\ UNCHANGED <<ncomments, header, headerSet, indices, _variable, _units>>
  /\ UNCHANGED <<call, file, handles, probes, constructed>>
  /\ UNCHANGED denseVars
  /\ UNCHANGED <<codec, thresholds, quantiles, compsScores>>

\* The index tuples of an array of the given shape.
Cells(shape) == Product([i \in 1..Len(shape) |-> 1..shape[i]])

\* Dense array of the given shape: the sparse value under each cell's key, or
\* not-a-number.
Dense(shape, dict, keys) ==
  [shape |-> shape,
   data |-> [c \in Cells(shape) |-> IF keys[c] \in DOMAIN dict THEN dict[keys[c]] ELSE NaN]]

\* maxLocationId after the loop over the locations.
RECURSIVE MaxLocationId(_, _)
MaxLocationId(locs, maxLocationId) ==
  IF locs = <<>> THEN maxLocationId
  ELSE LET id == Head(locs).id
       IN MaxLocationId(Tail(locs),
            IF isnan(maxLocationId) THEN id
            ELSE IF ~isnan(id) /\ id > maxLocationId THEN id
            ELSE maxLocationId)

\* The locations after every unassigned id was replaced by the counter.
RECURSIVE AssignIds(_, _)
AssignIds(locs, counter) ==
  IF locs = <<>> THEN <<>>
  ELSE IF isnan(Head(locs).id)
       THEN <<[Head(locs) EXCEPT !.id = counter]>> \o AssignIds(Tail(locs), counter + Scale)
       ELSE <<Head(locs)>> \o AssignIds(Tail(locs), counter)

\* Text.__init__ after the last row: closes the file, freezes the coordinate
\* sets into lists (in the iteration order of the sets, which the language
\* leaves open), fills the dense arrays and assigns the deferred ids.
TextFinish ==
  /\ pc = "Text.read"
  /\ file.opens => nlines > 0
  /\ handles' = handles \ {"Text.file"}
  /\ \E ds \in Perms(_dates), os \in Perms(_offsets), ls \in Perms(_locations),
        qs \in Perms(_quantiles), ts \in Perms(_thresholds) :
       LET shape3 == <<Len(ds), Len(os), Len(ls)>>
           key(c) == <<ds[c[1]], os[c[2]], ls[c[3]].lat, ls[c[3]].lon, ls[c[3]].elev>>
           key3 == [c \in Cells(shape3) |-> key(c)]
           keyq == [c \in Cells(Append(shape3, Len(qs))) |-> Append(key(c), qs[c[4]])]
           keyt == [c \in Cells(Append(shape3, Len(ts))) |-> Append(key(c), ts[c[4]])]
           maxLocationId == MaxLocationId(ls, NaN)
           counter == IF ~isnan(maxLocationId) THEN maxLocationId + Scale ELSE 0
       IN /\ self_obs' = Dense(shape3, obs, key3)
          /\ deterministic' = Dense(shape3, fcst, key3)
          /\ _pit' = IF DOMAIN pit # {} THEN Dense(shape3, pit, key3) ELSE NoArray
          /\ threshold_scores' = Dense(Append(shape3, Len(ts)), cdf, keyt)
          /\ quantile_scores' = Dense(Append(shape3, Len(qs)), x, keyq)
          /\ dates' = ds
          /\ offsets' = os
          /\ thresholds' = ts
          /\ quantiles' = qs
          /\ locations' = AssignIds(ls, counter)
  /\ constructed' = Append(constructed, "Text")
  /\ pc' = "loaded"
  /\ UNCHANGED <<call, file, probes, err, codec, compsScores>>
  /\ UNCHANGED <<nlines, rowstr, ncomments, header, headerSet, indices, _variable, _units,
                 warnings>>
  /\ UNCHANGED parseVars

\* ------------------------------------------------------------------------
\* Specification
\* ------------------------------------------------------------------------
vars == <<dispatchVars, codec, compsVars, textVars>>

Init ==
  /\ \/ call = "get_input" /\ file \in Files
     \/ call = "codec" /\ file = MissingFile
  /\ pc = "start"
  /\ handles = {}
  /\ probes = <<>>
  /\ constructed = <<>>
  /\ err = "none"
  /\ codec = NoCodec
  /\ thresholds = <<>>
  /\ quantiles = <<>>
  /\ compsScores = [kind |-> "none", values |-> <<>>]
  /\ nlines = 0
  /\ rowstr = [comment |-> FALSE, toks |-> <<>>]
  /\ seen = {}
  /\ firstSeen = <<>>
  /\ firstDates = <<>>
  /\ firstOffsets = <<>>
  /\ lastRow = EmptyDict
  /\ ncomments = 0
  /\ header = <<>>
  /\ headerSet = FALSE
  /\ indices = EmptyDict
  /\ _variable = <<"U", "n", "k", "n", "o", "w", "n">>
  /\ _units = <<"U", "n", "k", "n", "o", "w", "n", " ", "u", "n", "i", "t", "s">>
  /\ warnings = [ignored |-> 0, conflict |-> 0]
  /\ shownConflictingWarning = FALSE
  /\ locationInfo = EmptyDict
  /\ _dates = {}
  /\ _offsets = {}
  /\ _locations = {}
  /\ _quantiles = {}
  /\ _thresholds = {}
  /\ obs = EmptyDict
  /\ fcst = EmptyDict
  /\ cdf = EmptyDict
  /\ pit = EmptyDict
  /\ x = EmptyDict
  /\ dates = <<>>
  /\ offsets = <<>>
  /\ locations = <<>>
  /\ self_obs = NoArray
  /\ deterministic = NoArray
  /\ _pit = NoArray
  /\ threshold_scores = NoArray
  /\ quantile_scores = NoArray

Next ==
  \/ GetInputExists
  \/ GetInputNetcdfCf
  \/ GetInputComps
  \/ GetInputText
  \/ NetcdfCfInit
  \/ CompsInit
  \/ CompsThresholdScores
  \/ CompsQuantileScores
  \/ CodecEncodeThreshold
  \/ CodecEncodeQuantile
  \/ CodecDecode
  \/ TextInit
  \/ TextReadLine
  \/ TextFinish

Spec == Init /\ [][Next]_vars

\* ------------------------------------------------------------------------
\* Properties
\* ------------------------------------------------------------------------
TextLoaded == pc = "loaded" /\ constructed = <<"Text">>

\* The line read last is a row after the header.
IsDataLine == nlines > 0 /\ ~rowstr.comment /\ headerSet /\ rowstr.toks # header

\* C1: Comps.is_valid accepts a file exactly when it opens as a structured
\* binary file and its convention attribute equals "comps"; otherwise
\* get_input goes on to the Text decoder.
C1_CompsAcceptsOnlyComps ==
  pc \in {"Comps.__init__", "Text.is_valid"} =>
    ((pc = "Comps.__init__") <=>
       (/\ file.opens
        /\ hasattr(file, "Convensions")
        /\ file.attrs["Convensions"] = "comps"))

\* The decoder get_input selects for a file.
Selected(f) ==
  IF f.opens /\ hasattr(f, "Conventions") /\ f.attrs["Conventions"] = "verif_1.0.0"
  THEN 1
  ELSE IF f.opens /\ ~(hasattr(f, "Convensions") /\ ~hasattr(f, "Convension"))
  THEN 2
  ELSE 3

Decoders == <<"NetcdfCf", "Comps", "Text">>

\* C2: for a missing path get_input fails with the file-not-found error
\* before any validity predicate is evaluated; otherwise the predicates are
\* evaluated in the order NetcdfCf, Comps, Text up to the first that accepts,
\* only that decoder is constructed, and the unrecognized-format error never
\* occurs.
C2_DispatchTotalOrdered ==
  call = "get_input" =>
    /\ ~file.exists => /\ probes = <<>>
                       /\ constructed = <<>>
                       /\ pc # "start" => pc = "failed" /\ err = "FileNotFound"
    /\ file.exists => err # "FileNotFound"
    /\ err # "UnrecognizedFormat"
    /\ Len(probes) <= Selected(file)
    /\ probes = SubSeq(Decoders, 1, Len(probes))
    /\ pc \in {"NetcdfCf.__init__", "Comps.__init__", "Text.__init__", "Text.read",
               "loaded", "scores"}
         => probes = SubSeq(Decoders, 1, Selected(file))
    /\ constructed \in {<<>>, <<Decoders[Selected(file)]>>}
    /\ pc \in {"loaded", "scores"} => constructed = <<Decoders[Selected(file)]>>

C2_Witness ==
  /\ call = "get_input"
  /\ file.exists
  /\ pc = "loaded"
  /\ probes = <<"NetcdfCf", "Comps", "Text">>
  /\ constructed = <<"Text">>

\* C3: a handle opened by a validity predicate is closed when the predicate
\* returns, and the handle opened by a Text construction is closed when the
\* construction exits, by success or by a parse failure.
C3_HandlesReleased ==
  /\ "NetcdfCf.is_valid" \notin handles
  /\ "Comps.is_valid" \notin handles
  /\ pc \in {"loaded", "failed"} => "Text.file" \notin handles

\* C4: a Text load succeeds only with a header holding both 'obs' and
\* 'fcst'; a header lacking one aborts the load before any data row is
\* stored; a row with another number of fields than the header aborts the
\* load; a row with as many fields as the header is never rejected for its
\* number of fields.
C4_HeaderAndArity ==
  /\ TextLoaded /\ headerSet => {S_obs, S_fcst} \subseteq Range(header)
  /\ headerSet /\ ~({S_obs, S_fcst} \subseteq Range(header))
       => pc = "failed" /\ err = "MissingRequiredColumn" /\ seen = {}
  /\ IsDataLine /\ Len(rowstr.toks) # Len(header) => err = "RowArityMismatch"
  /\ IsDataLine /\ Len(rowstr.toks) = Len(header) => err # "RowArityMismatch"

\* C5: a row starting with '#' never makes the load fail, never becomes the
\* header and changes nothing but the variable name, the units and the log
\* of warnings.
C5_CommentsHarmless ==
  /\ [](nlines > 0 /\ rowstr.comment => pc # "failed")
  /\ [][nlines' = nlines + 1 /\ rowstr'.comment =>
          UNCHANGED <<header, headerSet, indices, parseVars>>]_vars

\* C9: decoding the token of a threshold of {-2, -0.5, 0, 0.3, 5} or of a
\* quantile of {0, 0.3, 0.5, 1} gives the value back.
C9_CodecRoundTrip ==
  pc = "decoded" =>
    /\ codec.kind = "threshold" /\ codec.value \in ThresholdSample
         => codec.back = codec.value
    /\ codec.kind = "quantile" /\ codec.value \in QuantileSample
         => codec.back = codec.value

\* Stored names that decode to a threshold / quantile, in storage order.
ThresholdNames(f) ==
  SelectSeq(ValueNames(f.variables), LAMBDA n : _comps_to_verif_threshold(n) # None)

QuantileNames(f) ==
  SelectSeq(ValueNames(f.variables), LAMBDA n : _comps_to_verif_quantile(n) # None)

\* C10: reading threshold_scores (quantile_scores) of a Comps file gives a
\* trailing axis of the length of thresholds (quantiles) whose slot t holds
\* the array of the stored variable that decoded to thresholds[t].
C10_StackingFollowsCoordinates ==
  constructed = <<"Comps">> =>
    /\ pc # "failed"
    /\ compsScores.kind = "threshold_scores"
         => /\ Len(compsScores.values) = Len(thresholds)
            /\ compsScores.values = ThresholdNames(file)
    /\ compsScores.kind = "quantile_scores"
         => /\ Len(compsScores.values) = Len(quantiles)
            /\ compsScores.values = QuantileNames(file)

\* The number in the column att of a row, or not-a-number without the column.
RowValue(toks, att) ==
  IF att \in DOMAIN indices THEN _clean(toks[indices[att]]) ELSE NaN

OrZero(v) == IF isnan(v) THEN 0 ELSE v

\* This step reads a row of numbers that passes the arity check.
StoresRow ==
  /\ nlines' = nlines + 1
  /\ headerSet
  /\ ~rowstr'.comment
  /\ Len(rowstr'.toks) = Len(header)
  /\ Len(header) <= SmallIntMax
  /\ \A i \in 1..Len(header) : is_number(rowstr'.toks[i])

\* The row repeats the id of info with a position off by more than the
\* tolerances.
Differs(info, toks) ==
  LET id == RowValue(toks, S_id)
      la == RowValue(toks, S_lat)
      lo == RowValue(toks, S_lon)
      el == RowValue(toks, S_elev)
  IN /\ ~isnan(id)
     /\ id \in DOMAIN info
     /\ \/ ~isnan(la) /\ (la - info[id].lat > Scale \div 10000 \/ info[id].lat - la > Scale \div 10000)
        \/ ~isnan(lo) /\ (lo - info[id].lon > Scale \div 10000 \/ info[id].lon - lo > Scale \div 10000)
        \/ ~isnan(el) /\ (el - info[id].elev > Scale \div 1000 \/ info[id].elev - el > Scale \div 1000)

\* C6: however many rows repeat a seen id with a position off by more than
\* 0.0001 (lat, lon) or 0.001 (elevation), the load logs at most one conflict
\* warning and exactly one once such a row was read; the row is stored and
\* the load goes on; the identity kept for an id is that of the first row
\* with the id (missing values as 0), also in the final locations.
C6_ConflictReportedOnce ==
  /\ [](warnings.conflict <= 1)
  /\ [][StoresRow =>
          LET id == RowValue(rowstr'.toks, S_id) IN
            /\ pc' = "Text.read"
            /\ Differs(locationInfo, rowstr'.toks) => warnings'.conflict = 1
            /\ ~isnan(id) /\ id \in DOMAIN locationInfo => locationInfo' = locationInfo
            /\ ~isnan(id) /\ id \notin DOMAIN locationInfo =>
                 /\ warnings' = warnings
                 /\ locationInfo'[id] =
                      [id |-> id,
                       lat |-> OrZero(RowValue(rowstr'.toks, S_lat)),
                       lon |-> OrZero(RowValue(rowstr'.toks, S_lon)),
                       elev |-> OrZero(RowValue(rowstr'.toks, S_elev))]]_vars
  /\ [](TextLoaded =>
          \A i \in 1..Len(locations) :
            locations[i].id \in DOMAIN locationInfo =>
              locations[i] = locationInfo[locations[i].id])

C6_Witness ==
  /\ TextLoaded
  /\ warnings.conflict = 1
  /\ IsDataLine
  /\ Differs(locationInfo, rowstr.toks)
  /\ Cardinality(DOMAIN locationInfo) >= 2
  /\ Len(locations) >= 2

\* The Location of the file that became the final location loc.
Original(loc) ==
  IF loc.id \in {l.id : l \in _locations} THEN loc ELSE [loc EXCEPT !.id = NaN]

\* C7: after a Text load the dense arrays have the shape given by the
\* numbers of distinct dates, offsets, locations, thresholds and quantiles,
\* and every cell whose (date, offset, location) is in no data row is
\* not-a-number.
C7_DenseComplete ==
  TextLoaded =>
    LET shape3 == <<Cardinality(_dates), Cardinality(_offsets), Cardinality(_locations)>>
        Absent(c) == <<dates[c[1]], offsets[c[2]], Original(locations[c[3]])>> \notin seen
    IN /\ <<Len(dates), Len(offsets), Len(locations)>> = shape3
       /\ self_obs.shape = shape3
       /\ deterministic.shape = shape3
       /\ threshold_scores.shape = Append(shape3, Len(thresholds))
       /\ quantile_scores.shape = Append(shape3, Len(quantiles))
       /\ \A c \in DOMAIN self_obs.data :
            Absent(c) => isnan(self_obs.data[c]) /\ isnan(deterministic.data[c])
       /\ \A c \in DOMAIN threshold_scores.data :
            Absent(c) => isnan(threshold_scores.data[c])
       /\ \A c \in DOMAIN quantile_scores.data :
            Absent(c) => isnan(quantile_scores.data[c])

\* C8: after a Text load no location is unassigned, no two locations share
\* an id, ids given in the file are kept, and the k-th location created
\* without an id has the id k - 1 above the start: one above the largest id
\* of the file, or 0 without any.
C8_DeferredIdsInFileOrder ==
  TextLoaded =>
    LET given == {l.id : l \in _locations} \ {NaN}
        start == IF given = {} THEN 0
                 ELSE (CHOOSE m \in given : \A n \in given : n <= m) + Scale
        unassigned == SelectSeq(firstSeen, LAMBDA l : isnan(l.id))
    IN /\ \A i \in 1..Len(locations) : ~isnan(locations[i].id)
       /\ \A i, j \in 1..Len(locations) :
            locations[i].id = locations[j].id => i = j
       /\ \A l \in _locations : ~isnan(l.id) => l \in Range(locations)
       /\ \A k \in 1..Len(unassigned) :
            [unassigned[k] EXCEPT !.id = start + (k - 1) * Scale] \in Range(locations)

\* The numbers of the fields in header order, each once.
RECURSIVE FieldValues(_)
FieldValues(fields) ==
  IF fields = <<>> THEN <<>>
  ELSE AppendNew(FieldValues(SubSeq(fields, 1, Len(fields) - 1)),
                 float(Tail(fields[Len(fields)])))

\* C11: after a Text load dates, offsets, locations, thresholds and quantiles
\* hold each distinct value of the file once, in the order in which the
\* values were first read.
C11_CoordinatesInFirstSeenOrder ==
  TextLoaded =>
    /\ dates = firstDates
    /\ offsets = firstOffsets
    /\ [i \in 1..Len(locations) |-> Original(locations[i])] = firstSeen
    /\ thresholds = (IF seen = {} THEN <<>> ELSE FieldValues(_get_threshold_fields(header)))
    /\ quantiles = (IF seen = {} THEN <<>> ELSE FieldValues(_get_quantile_fields(header)))

\* C12: after a Text load the obs and deterministic cell of every (date,
\* offset, location) of the file holds the obs and fcst value of the last row
\* with that date, offset and location, also when two ids share a position,
\* and a cell of a location without such a row holds no value.
C12_NoRowLostOrMisattributed ==
  TextLoaded =>
    \A c \in DOMAIN self_obs.data :
      LET k == <<dates[c[1]], offsets[c[2]], Original(locations[c[3]])>>
      IN /\ k \in DOMAIN lastRow =>
              /\ self_obs.data[c] = lastRow[k].obs
              /\ deterministic.data[c] = lastRow[k].fcst
         /\ k \notin DOMAIN lastRow =>
              /\ isnan(self_obs.data[c])
              /\ isnan(deterministic.data[c])

\* C13: for every stored name of a Comps file outside the dimension names
\* that decodes to a threshold (quantile), encoding the decoded value gives
\* the name back and the name begins with 'p' ('q'); threshold_scores and
\* quantile_scores therefore only look up stored names.
C13_DiscoveredNamesReadBack ==
  constructed = <<"Comps">> =>
    /\ \A n \in Range(ValueNames(file.variables)) :
         /\ _comps_to_verif_threshold(n) # None =>
              /\ _verif_to_comps_threshold(_comps_to_verif_threshold(n)) = n
              /\ n[1] = "p"
         /\ _comps_to_verif_quantile(n) # None =>
              /\ _verif_to_comps_quantile(_comps_to_verif_quantile(n)) = n
              /\ n[1] = "q"
    /\ Stored(file, StackThresholds(thresholds))
    /\ Stored(file, StackQuantiles(quantiles))
    /\ err # "KeyError"

====
